---------------------------- MODULE Spec2Model ----------------------------
(***************************************************************************)
(* WhatsEase web client: the push-connection provider                      *)
(* (context/WebSocketContext.jsx), the authentication context              *)
(* (context/AuthContext.jsx), the conversation window                      *)
(* (components/Chat/ChatWindow.jsx) and the API service they call.  The    *)
(* FastAPI backend is not part of the client sources; its delivery          *)
(* coordinator is modelled from the specification (section 4.3) and is     *)
(* marked as such where it is defined.                                     *)
(*                                                                         *)
(* React state is modelled as updated when the setter runs; a value that a *)
(* closure captured at an earlier render is kept in a variable of its own  *)
(* (cleanupSocket, the fields of sendReq).                                 *)
(***************************************************************************)
EXTENDS Integers, Sequences, FiniteSets, TLC

(***************************************************************************)
(* Bounds of the model.                                                    *)
(***************************************************************************)
MaxSockets == 8       \* WebSocket objects ever created by one provider
MaxUser    == 2       \* versions of the user object (updateUser calls + 1)
MaxMsgs    == 2       \* messages the store ever holds
MaxSends   == 1       \* handleSendMessage calls that pass its guard
MaxLoads   == 2       \* history requests in flight
MaxConns   == 2       \* connections (devices) of one user
MaxEvents  == 3       \* presence events the broadcaster ever emits
MaxListLoads == 1     \* chat-list requests in flight
MaxMods    == 1       \* edit and delete requests in flight

(***************************************************************************)
(* Program constants.                                                      *)
(***************************************************************************)
maxReconnectAttempts == 5

TOKEN == "whatsease_token"            \* STORAGE_KEYS.TOKEN
ACCESS_TOKEN == "accessToken"         \* the key AuthContext and apiRequest use
BOT_EMAIL == "bot@whatsease.com"

Me == "me@whatsease.com"              \* currentUser.email
Peer == "peer@whatsease.com"          \* a human conversation partner
Partners == {Peer, BOT_EMAIL}
Other == "other@whatsease.com"        \* a user Me has no conversation with
RegUsers == {Peer, Other}             \* the users who open connections
NoChat == "none"                      \* selectedChat = null

MESSAGE_STATUS == [SENT |-> "Sent", DELIVERED |-> "Delivered", READ |-> "Read"]

VARIABLES
    storage,            \* localStorage: the set of keys that hold a value
    user,               \* AuthContext user: 0 = null, n > 0 = the n-th user object
    isAuthenticated,    \* AuthContext isAuthenticated
    mounted,            \* WebSocketProvider: "no" (not yet), "yes", "gone"
    socks,              \* every WebSocket created: its readyState
    socket,             \* provider state `socket`: index into socks, 0 = null
    cleanupSocket,      \* `socket` as captured by the connect effect's cleanup
    isConnected,        \* provider state isConnected
    reconnectAttempts,  \* reconnectAttemptsRef.current
    timers,             \* reconnect timeouts pending (all 3000 ms: FIFO)
    refPending,         \* reconnectTimeoutRef.current names a pending timeout
    chat,               \* ChatWindow prop chat.other_user_email, or NoChat
    messages,           \* ChatWindow state messages (the displayed list)
    loading,            \* ChatWindow state loading
    error,              \* ChatWindow state error ("" = null)
    isSending,          \* ChatWindow state isSending
    isTyping,           \* ChatWindow state isTyping
    sendReq,            \* the handleSendMessage call in flight, with its closure
    sendSeq,            \* sends started so far (Date.now() of the temporary id)
    loads,              \* getConversation calls in flight
    store,              \* the server's message table; identifier = index
    missed,             \* history: messages stored while the connection was lost
    conns,              \* Session Registry: user -> set of connections
    presence,           \* Session Registry: the users it reports online
    events,             \* Presence Broadcaster: the events emitted, in order
    evRecv,             \* presence events that reached or missed Me's channel
    chats,              \* ChatDashboard state chats: who is listed, who is online
    onlineUsers,        \* ChatDashboard state onlineUsers
    selOnline,          \* ChatDashboard state selectedChat.is_online
    listLoads,          \* getChatList calls in flight
    known,              \* history: the latest presence information Me received
    editing,            \* Message state isEditing: the message_ids it is true for
    modReqs,            \* editMessage / deleteMessage calls in flight
    typingSeen,         \* history: is_typing of the last typing event received
                        \* from the selected partner since it was selected
    lastStep            \* history: the operation that produced this state

wsVars == <<storage, user, isAuthenticated, mounted, socks, socket,
            cleanupSocket, isConnected, reconnectAttempts, timers,
            refPending>>

chatVars == <<chat, messages, loading, error, isSending, isTyping, sendReq,
              sendSeq, loads>>

netVars == <<store, missed>>

regVars == <<conns, presence, events, evRecv>>

dashVars == <<chats, onlineUsers, selOnline, listLoads, known>>

modVars == <<editing, modReqs>>

vars == <<wsVars, chatVars, netVars, regVars, dashVars, modVars, typingSeen,
          lastStep>>

\* lastStep: the operation, the message it was about, a fact about the state
\* it started in, and the frames the client wrote to the push channel in it.
StepSent(op, id, flag, sent) ==
    [op |-> op, id |-> id, flag |-> flag, sent |-> sent]

Step(op, id, flag) == StepSent(op, id, flag, <<>>)

\* No handleSendMessage call in flight.
NoReq == [phase |-> "none", tempId |-> 0, recipient |-> "", content |-> <<>>,
          isConnected |-> FALSE, socket |-> 0, result |-> 0]

(***************************************************************************)
(* Sequence helpers.                                                       *)
(***************************************************************************)
\* A reordering that leaves the sequence as it is.
KeepOrder(s) == s

RECURSIVE Reverse(_)
Reverse(s) == IF s = <<>> THEN <<>> ELSE Append(Reverse(Tail(s)), Head(s))

RemoveAt(s, k) == [i \in 1..(Len(s) - 1) |-> IF i < k THEN s[i] ELSE s[i + 1]]

Count(list, id) == Cardinality({i \in 1..Len(list) : list[i].message_id = id})

\* The Message components that stay mounted keep their isEditing state:
\* those whose key (message_id) is still in the list; none while the
\* Loading screen replaces the list.
EditingAfter(msgs, wasLoading, ed) ==
    IF wasLoading THEN {}
    ELSE {e \in ed : \E i \in 1..Len(msgs) : msgs[i].message_id = e}

\* String.prototype.trim on a string given as a sequence of characters.
RECURSIVE TrimLeft(_)
TrimLeft(s) ==
    IF s # <<>> /\ Head(s) = " " THEN TrimLeft(Tail(s)) ELSE s

\* A trim that removes nothing.
TrimNone(s) == s

Trim(s) == Reverse(TrimLeft(Reverse(TrimLeft(s))))

\* Empty, or whitespace only.
IsBlank(s) == \A i \in 1..Len(s) : s[i] = " "

Contents == {<<>>, <<" ">>, <<"h">>, <<" ", "h">>}

(***************************************************************************)
(* WebSocketContext.jsx                                                    *)
(***************************************************************************)
SockOpen(i) == i \in 1..Len(socks) /\ socks[i] = "open"

AnyOpen == \E i \in 1..Len(socks) : socks[i] = "open"

\* connect(): `u` is the user the callback closed over.
ConnectCreates(u) == u # 0 /\ TOKEN \in storage

SocksAfterConnect(ss, u) ==
    IF ConnectCreates(u) THEN Append(ss, "connecting") ELSE ss

\* setSocket(ws) at the end of connect(); no effect once unmounted.
SocketAfterConnect(ss, u, m) ==
    IF ConnectCreates(u) /\ m = "yes" THEN Len(ss) + 1 ELSE socket

\* socket.close(): a connecting or open socket starts closing.
CloseSock(ss, i) ==
    IF i # 0 /\ ss[i] \in {"connecting", "open"}
    THEN [ss EXCEPT ![i] = "closing"]
    ELSE ss

\* The cleanup of the connect effect: clearTimeout(reconnectTimeoutRef.current),
\* then close the socket the closure captured.
TimersAfterCleanup == IF refPending THEN timers - 1 ELSE timers

SocksAfterCleanup == CloseSock(socks, cleanupSocket)

\* sendMessage(type, data): socket.send when the socket `s` is OPEN.
Frame(type, id, sender, recipient, content, status, flag) ==
    [type |-> type, message_id |-> id, sender |-> sender,
     recipient |-> recipient, content |-> content, status |-> status,
     timestamp |-> 0, edited |-> FALSE, is_typing |-> flag]

SendMessage(out, s, frame) ==
    IF SockOpen(s) THEN Append(out, frame) ELSE out

\* markAsDelivered(messageId, senderEmail)
MarkAsDelivered(out, s, id, senderEmail) ==
    SendMessage(out, s, Frame("mark_delivered", id, senderEmail, "", <<>>, "", FALSE))

\* markAsRead(messageId, senderEmail)
MarkAsRead(out, s, id, senderEmail) ==
    SendMessage(out, s, Frame("mark_read", id, senderEmail, "", <<>>, "", FALSE))

\* sendChatMessage(recipient, content, replyTo)
SendChatMessage(out, s, recipient, content) ==
    SendMessage(out, s, Frame("new_message", 0, "", recipient, content, "", FALSE))

(***************************************************************************)
(* AuthContext.jsx and the routes of App.jsx                               *)
(***************************************************************************)
\* login(email, password) succeeding.
Login ==
    /\ ~isAuthenticated
    /\ mounted = "no"
    /\ storage' = storage \cup {ACCESS_TOKEN, "user"}
    /\ user' = 1
    /\ isAuthenticated' = TRUE
    /\ lastStep' = Step("login", 0, FALSE)
    /\ UNCHANGED <<mounted, socks, socket, cleanupSocket, isConnected,
                   reconnectAttempts, timers, refPending>>
    /\ UNCHANGED <<chatVars, netVars>>
    /\ UNCHANGED <<regVars, dashVars, modVars, typingSeen>>

\* ProtectedRoute renders WebSocketProvider; its connect effect runs, and
\* ChatDashboard under it calls loadChatList().
Mount ==
    /\ isAuthenticated
    /\ mounted = "no"
    /\ mounted' = "yes"
    /\ socks' = SocksAfterConnect(socks, user)
    /\ socket' = SocketAfterConnect(socks, user, "yes")
    /\ cleanupSocket' = socket
    /\ listLoads' = Append(listLoads, [served |-> FALSE, listed |-> {},
                                        online |-> {}, ver |-> 0])
    /\ lastStep' = Step("mount", 0, FALSE)
    /\ UNCHANGED <<storage, user, isAuthenticated, isConnected,
                   reconnectAttempts, timers, refPending>>
    /\ UNCHANGED <<chatVars, netVars>>
    /\ UNCHANGED <<regVars, chats, onlineUsers, selOnline, known, modVars, typingSeen>>

\* updateUser(updatedUser): a new user object; the connect effect's cleanup
\* runs, then the effect again.
UpdateUser ==
    /\ mounted = "yes"
    /\ user # 0
    /\ user < MaxUser
    /\ Len(socks) < MaxSockets
    /\ user' = user + 1
    /\ storage' = storage \cup {"user"}
    /\ timers' = TimersAfterCleanup
    /\ refPending' = FALSE
    /\ socks' = SocksAfterConnect(SocksAfterCleanup, user + 1)
    /\ socket' = SocketAfterConnect(socks, user + 1, "yes")
    /\ cleanupSocket' = socket
    /\ lastStep' = Step("updateUser", 0, FALSE)
    /\ UNCHANGED <<isAuthenticated, mounted, isConnected, reconnectAttempts>>
    /\ UNCHANGED <<chatVars, netVars>>
    /\ UNCHANGED <<regVars, dashVars, modVars, typingSeen>>

\* logout(): the token is removed, user becomes null, ProtectedRoute
\* redirects and the provider (with the ChatWindow under it) unmounts.
Logout ==
    /\ isAuthenticated
    /\ mounted = "yes"
    /\ storage' = storage \ {ACCESS_TOKEN, "user"}
    /\ user' = 0
    /\ isAuthenticated' = FALSE
    /\ mounted' = "gone"
    /\ timers' = TimersAfterCleanup
    /\ refPending' = FALSE
    /\ socks' = SocksAfterCleanup
    /\ chat' = NoChat
    /\ messages' = <<>>
    /\ loading' = TRUE
    /\ error' = ""
    /\ isSending' = FALSE
    /\ isTyping' = FALSE
    /\ sendReq' = NoReq
    /\ loads' = <<>>
    /\ lastStep' = Step("logout", 0, FALSE)
    /\ UNCHANGED <<socket, cleanupSocket, isConnected, reconnectAttempts,
                   sendSeq, store, missed>>
    /\ editing' = {}
    /\ typingSeen' = FALSE
    /\ UNCHANGED <<regVars, dashVars, modReqs>>

(***************************************************************************)
(* WebSocket events                                                        *)
(***************************************************************************)
\* ws.onopen
OnOpen(i) ==
    /\ i \in 1..Len(socks)
    /\ socks[i] = "connecting"
    /\ socks' = [socks EXCEPT ![i] = "open"]
    /\ isConnected' = IF mounted = "yes" THEN TRUE ELSE isConnected
    /\ reconnectAttempts' = 0
    /\ lastStep' = Step("open", i, FALSE)
    /\ UNCHANGED <<storage, user, isAuthenticated, mounted, socket,
                   cleanupSocket, timers, refPending>>
    /\ UNCHANGED <<chatVars, netVars>>
    /\ UNCHANGED <<regVars, dashVars, modVars, typingSeen>>

\* ws.onclose: the server or the network closed the socket, the connection
\* attempt failed, or a close() completed.
OnClose(i) ==
    /\ i \in 1..Len(socks)
    /\ socks[i] # "closed"
    /\ socks' = [socks EXCEPT ![i] = "closed"]
    /\ isConnected' = IF mounted = "yes" THEN FALSE ELSE isConnected
    /\ IF reconnectAttempts < maxReconnectAttempts
       THEN timers' = timers + 1 /\ refPending' = TRUE
       ELSE UNCHANGED <<timers, refPending>>
    /\ lastStep' = Step("close", i, reconnectAttempts < maxReconnectAttempts)
    /\ UNCHANGED <<storage, user, isAuthenticated, mounted, socket,
                   cleanupSocket, reconnectAttempts>>
    /\ UNCHANGED <<chatVars, netVars>>
    /\ UNCHANGED <<regVars, dashVars, modVars, typingSeen>>

\* The reconnect timeout fires: the oldest pending one; the one the ref
\* names is the newest.
TimerFire ==
    /\ timers > 0
    /\ Len(socks) < MaxSockets
    /\ timers' = timers - 1
    /\ refPending' = IF timers = 1 THEN FALSE ELSE refPending
    /\ reconnectAttempts' = reconnectAttempts + 1
    /\ socks' = SocksAfterConnect(socks, 1)
    /\ socket' = SocketAfterConnect(socks, 1, mounted)
    /\ lastStep' = Step("timer", 0, FALSE)
    /\ UNCHANGED <<storage, user, isAuthenticated, mounted, cleanupSocket,
                   isConnected>>
    /\ UNCHANGED <<chatVars, netVars>>
    /\ UNCHANGED <<regVars, dashVars, modVars, typingSeen>>

WsNext ==
    \/ Login
    \/ Mount
    \/ UpdateUser
    \/ Logout
    \/ \E i \in 1..MaxSockets : OnOpen(i)
    \/ \E i \in 1..MaxSockets : OnClose(i)
    \/ TimerFire

(***************************************************************************)
(* The backend's message table and delivery coordinator.  The backend is   *)
(* not among the client sources: this part follows the specification,      *)
(* sections 3, 4.3 and 6.                                                  *)
(***************************************************************************)
Rank(status) ==
    CASE status = MESSAGE_STATUS.SENT -> 1
      [] status = MESSAGE_STATUS.DELIVERED -> 2
      [] status = MESSAGE_STATUS.READ -> 3
      [] OTHER -> 0

\* A stored message; its creation timestamp is its place in the table.
\* `pushed`: the fan-out found a live connection of Me when the message was
\* stored (the push channel does not replay what it could not deliver).
Stored(sender, recipient, content, pushed) ==
    [sender |-> sender, recipient |-> recipient, content |-> content,
     status |-> MESSAGE_STATUS.SENT, delivered |-> FALSE, deleted |-> FALSE,
     edited |-> FALSE, pushed |-> pushed]

TimestampOf(id) == 2 * id

\* The message as the interface returns it.
View(st, id) ==
    [message_id |-> id, sender |-> st[id].sender,
     recipient |-> st[id].recipient, content |-> st[id].content,
     status |-> st[id].status, timestamp |-> TimestampOf(id),
     edited |-> st[id].edited]

Between(st, id, a, b) ==
    \/ st[id].sender = a /\ st[id].recipient = b
    \/ st[id].sender = b /\ st[id].recipient = a

\* history(conversationPartner): the non-deleted messages of the
\* conversation, newest first.
RECURSIVE HistoryUpTo(_, _, _)
HistoryUpTo(st, n, partner) ==
    IF n = 0 THEN <<>>
    ELSE IF Between(st, n, Me, partner) /\ ~st[n].deleted
         THEN <<View(st, n)>> \o HistoryUpTo(st, n - 1, partner)
         ELSE HistoryUpTo(st, n - 1, partner)

\* A history that leaves out what the push fan-out could not deliver.
HistoryPushedOnly(st, partner) ==
    SelectSeq(HistoryUpTo(st, Len(st), partner),
              LAMBDA m : st[m.message_id].pushed)

History(st, partner) == HistoryUpTo(st, Len(st), partner)

\* An acknowledgement that does not look at the current status.
AckAlways(st, id, by) ==
    IF id \in 1..Len(st) /\ st[id].recipient = by
    THEN [st EXCEPT ![id].status = MESSAGE_STATUS.DELIVERED,
                    ![id].delivered = TRUE]
    ELSE st

\* The recipient's explicit acknowledgement: Sent -> Delivered.
AckOp(st, id, by) ==
    IF id \in 1..Len(st) /\ st[id].recipient = by
       /\ st[id].status = MESSAGE_STATUS.SENT
    THEN [st EXCEPT ![id].status = MESSAGE_STATUS.DELIVERED,
                    ![id].delivered = TRUE]
    ELSE st

\* A read mark that writes the status and nothing else.
MarkReadStatusOnly(st, by, sender, upTo) ==
    IF upTo \in 1..Len(st)
    THEN [i \in 1..Len(st) |->
            IF /\ st[i].sender = sender
               /\ st[i].recipient = by
               /\ TimestampOf(i) <= TimestampOf(upTo)
               /\ st[i].status # MESSAGE_STATUS.READ
            THEN [st[i] EXCEPT !.status = MESSAGE_STATUS.READ]
            ELSE st[i]]
    ELSE st

\* A read mark that touches message X alone.
MarkReadOnlyOne(st, by, sender, upTo) ==
    IF upTo \in 1..Len(st) /\ st[upTo].sender = sender /\ st[upTo].recipient = by
    THEN [st EXCEPT ![upTo].status = MESSAGE_STATUS.READ,
                    ![upTo].delivered = TRUE]
    ELSE st

\* "mark conversation read up to message X" by the recipient `by`: every
\* non-Read message from `sender` to `by` no later than X becomes Read,
\* recorded as Delivered on the way.
MarkReadOp(st, by, sender, upTo) ==
    IF upTo \in 1..Len(st)
    THEN [i \in 1..Len(st) |->
            IF /\ st[i].sender = sender
               /\ st[i].recipient = by
               /\ TimestampOf(i) <= TimestampOf(upTo)
               /\ st[i].status # MESSAGE_STATUS.READ
            THEN [st[i] EXCEPT !.status = MESSAGE_STATUS.READ,
                               !.delivered = TRUE]
            ELSE st[i]]
    ELSE st

\* The frames the coordinator may have put on Me's push channel, given the
\* table: a message of one of Me's conversations (the fan-out of a send, or
\* its echo) and a status change of a message of Me, each as it was when the
\* frame was written (a message is pushed when it is stored, so Sent, and only
\* if Me had a live connection then), and a partner's typing indicator.  A
\* frame arrives any time later, or never.
StatusesUpTo(status) ==
    {s \in {MESSAGE_STATUS.SENT, MESSAGE_STATUS.DELIVERED, MESSAGE_STATUS.READ} :
        Rank(s) <= Rank(status)}

NewMessageFrames(st) ==
    {[Frame("new_message", id, st[id].sender, st[id].recipient,
            st[id].content, MESSAGE_STATUS.SENT, FALSE)
        EXCEPT !.timestamp = TimestampOf(id)] :
       id \in {i \in 1..Len(st) : st[i].pushed /\ ~st[i].deleted}}

StatusFrames(st) ==
    UNION {{Frame("message_status", id, Me, st[id].recipient, st[id].content,
                  s, FALSE) :
              s \in StatusesUpTo(st[id].status) \ {MESSAGE_STATUS.SENT}} :
           id \in {i \in 1..Len(st) : st[i].sender = Me}}

TypingFrames ==
    {Frame("typing", 0, p, Me, <<>>, "", b) : p \in Partners, b \in BOOLEAN}

\* A partner sends a message to Me through the pull interface.
PartnerSend(p) ==
    /\ p \in Partners
    /\ Len(store) < MaxMsgs
    /\ store' = Append(store, Stored(p, Me, <<"h">>, AnyOpen))
    /\ missed' = IF /\ mounted = "yes" /\ chat = p /\ ~loading /\ loads = <<>>
                    /\ ~AnyOpen /\ \E i \in 1..Len(socks) : socks[i] = "closed"
                 THEN missed \cup {Len(store) + 1}
                 ELSE missed
    /\ lastStep' = Step("partnerSend", 0, FALSE)
    /\ UNCHANGED <<wsVars, chatVars>>
    /\ UNCHANGED <<regVars, dashVars, modVars, typingSeen>>

\* The recipient of a message of Me acknowledges it.
PartnerAck(id) ==
    /\ id \in 1..Len(store)
    /\ store[id].sender = Me
    /\ store' = AckOp(store, id, store[id].recipient)
    /\ lastStep' = Step("ack", id, store[id].status = MESSAGE_STATUS.READ)
    /\ UNCHANGED <<wsVars, chatVars, missed>>
    /\ UNCHANGED <<regVars, dashVars, modVars, typingSeen>>

\* The recipient of a message of Me marks the conversation read up to it.
PartnerMarkRead(id) ==
    /\ id \in 1..Len(store)
    /\ store[id].sender = Me
    /\ store' = MarkReadOp(store, store[id].recipient, Me, id)
    /\ lastStep' = Step("markRead", id, store[id].status = MESSAGE_STATUS.SENT)
    /\ UNCHANGED <<wsVars, chatVars, missed>>
    /\ UNCHANGED <<regVars, dashVars, modVars, typingSeen>>

\* The coordinator handles the frames Me's client wrote to the push channel:
\* an acknowledgement, a read mark; any other type changes nothing.
ServerOnFrame(st, frame) ==
    CASE frame.type = "mark_delivered" -> AckOp(st, frame.message_id, Me)
      [] frame.type = "mark_read" ->
           MarkReadOp(st, Me, frame.sender, frame.message_id)
      [] OTHER -> st

RECURSIVE ServerOnFrames(_, _)
ServerOnFrames(st, frames) ==
    IF frames = <<>> THEN st
    ELSE ServerOnFrames(ServerOnFrame(st, Head(frames)), Tail(frames))

(***************************************************************************)
(* The backend's Session Registry and Presence Broadcaster, from the       *)
(* specification, sections 4.1 and 4.2.  register and unregister are       *)
(* serialized: each is one step.                                           *)
(***************************************************************************)
IsOnline(u) == u \in presence

ConnectionsFor(u) == conns[u]

PresenceEvent(u, b) == [user |-> u, online |-> b]

\* A register that reports an edge for every connection.
RegisterAlwaysEmits(cs, on, u, c) ==
    [conns |-> [cs EXCEPT ![u] = @ \cup {c}],
     presence |-> on \cup {u},
     emitted |-> <<PresenceEvent(u, TRUE)>>,
     result |-> "ok"]

\* register(user, connection)
RegisterOp(cs, on, u, c) ==
    [conns |-> [cs EXCEPT ![u] = @ \cup {c}],
     presence |-> on \cup {u},
     emitted |-> IF cs[u] = {} THEN <<PresenceEvent(u, TRUE)>> ELSE <<>>,
     result |-> "ok"]

\* An unregister that takes the user offline with any of its connections.
UnregisterDropsUser(cs, on, u, c) ==
    IF c \in cs[u]
    THEN [conns |-> [cs EXCEPT ![u] = @ \ {c}],
          presence |-> on \ {u},
          emitted |-> IF cs[u] = {c} THEN <<PresenceEvent(u, FALSE)>> ELSE <<>>,
          result |-> "ok"]
    ELSE [conns |-> cs, presence |-> on, emitted |-> <<>>, result |-> "ok"]

\* An unregister that reports the offline edge whenever no connection is left.
UnregisterReemits(cs, on, u, c) ==
    [conns |-> [cs EXCEPT ![u] = @ \ {c}],
     presence |-> IF cs[u] \ {c} = {} THEN on \ {u} ELSE on,
     emitted |-> IF cs[u] \ {c} = {} THEN <<PresenceEvent(u, FALSE)>> ELSE <<>>,
     result |-> "ok"]

\* unregister(user, connection)
UnregisterOp(cs, on, u, c) ==
    IF c \in cs[u]
    THEN [conns |-> [cs EXCEPT ![u] = @ \ {c}],
          presence |-> IF cs[u] = {c} THEN on \ {u} ELSE on,
          emitted |-> IF cs[u] = {c} THEN <<PresenceEvent(u, FALSE)>> ELSE <<>>,
          result |-> "ok"]
    ELSE [conns |-> cs, presence |-> on, emitted |-> <<>>, result |-> "ok"]

\* An event emitted while Me has no live connection is not replayed.
EvRecvAfterEmit(emitted) ==
    IF emitted # <<>> /\ ~AnyOpen THEN Len(events) + Len(emitted) ELSE evRecv

\* A device of user u connects.
Register(u, c) ==
    /\ u \in RegUsers
    /\ c \in 1..MaxConns
    /\ c \notin conns[u]
    /\ Len(events) < MaxEvents
    /\ LET r == RegisterOp(conns, presence, u, c)
       IN /\ conns' = r.conns
          /\ presence' = r.presence
          /\ events' = events \o r.emitted
          /\ evRecv' = EvRecvAfterEmit(r.emitted)
    /\ lastStep' = Step("register", c, conns[u] = {})
    /\ UNCHANGED <<wsVars, chatVars, netVars, modVars, typingSeen, dashVars>>

\* A connection of user u closes, or its close is reported once more.
Unregister(u, c) ==
    /\ u \in RegUsers
    /\ c \in 1..MaxConns
    /\ Len(events) < MaxEvents
    /\ LET r == UnregisterOp(conns, presence, u, c)
       IN /\ conns' = r.conns
          /\ presence' = r.presence
          /\ events' = events \o r.emitted
          /\ evRecv' = EvRecvAfterEmit(r.emitted)
    /\ lastStep' = Step("unregister", c, c \in conns[u])
    /\ UNCHANGED <<wsVars, chatVars, netVars, modVars, typingSeen, dashVars>>

RegistryNext ==
    \/ \E u \in RegUsers, c \in 1..MaxConns : Register(u, c)
    \/ \E u \in RegUsers, c \in 1..MaxConns : Unregister(u, c)

(***************************************************************************)
(* ChatDashboard.jsx and ChatList.jsx: the chat list and presence          *)
(***************************************************************************)
\* ChatList.processedChats: the entry of the bot is set online in place.
RenderChatList(chs) ==
    IF BOT_EMAIL \in chs.listed
    THEN [chs EXCEPT !.online = @ \cup {BOT_EMAIL}]
    ELSE chs

\* The online flag ChatList shows for partner p: the bot's entry, found or
\* made up, is always drawn online.
ListShowsOnline(p) == p = BOT_EMAIL \/ p \in chats.online

\* is_online as handleChatSelect and the selected-chat effect compute it.
ItemOnline(chs, ou, p) ==
    IF p = BOT_EMAIL THEN TRUE ELSE p \in ou \/ p \in chs.online

\* handleChatSelect(chat)
ChatSelectOnline(p) == ItemOnline(chats, onlineUsers, p)

\* The effect on [userEmail, chats, onlineUsers]: the selected chat is taken
\* again from the list when it is found there.
SelectedAfterEffect(chs, ou, sel) ==
    IF chat # NoChat /\ chs.listed # {} /\ chat \in chs.listed
    THEN ItemOnline(chs, ou, chat)
    ELSE sel

(***************************************************************************)
(* ChatWindow.jsx                                                          *)
(***************************************************************************)
\* The message object a frame carries (wsMessage.data).
MessageOf(frame) ==
    [message_id |-> frame.message_id, sender |-> frame.sender,
     recipient |-> frame.recipient, content |-> frame.content,
     status |-> frame.status, timestamp |-> frame.timestamp,
     edited |-> frame.edited]

\* The handler's filter: the message belongs to the open conversation.
InConversation(m) ==
    \/ m.sender = chat /\ m.recipient = Me
    \/ m.sender = Me /\ m.recipient = chat

\* A handler without the identifier check.
AppendAlways(prev, m) == Append(prev, m)

\* setMessages(prev => exists ? prev : [...prev, messageData])
AppendIfNew(prev, m) ==
    IF \E i \in 1..Len(prev) : prev[i].message_id = m.message_id
    THEN prev
    ELSE Append(prev, m)

\* The push handler's update of the displayed list for one frame.
HandlerMessages(prev, frame) ==
    IF frame.type \in {"new_message", "message"} /\ InConversation(MessageOf(frame))
    THEN AppendIfNew(prev, MessageOf(frame))
    ELSE prev

\* The frames the push handler sends back for one frame.
HandlerReplies(out, frame) ==
    IF /\ frame.type \in {"new_message", "message"}
       /\ InConversation(MessageOf(frame))
       /\ frame.sender = chat
    THEN MarkAsRead(out, socket, frame.message_id, chat)
    ELSE out

HandlerTyping(frame) ==
    IF frame.type = "typing" /\ frame.sender = chat
    THEN frame.is_typing
    ELSE isTyping

\* ws.onmessage on an open socket: the frame goes to every registered
\* handler; ChatWindow's is registered while a chat is selected.
OnMessage(frame) ==
    /\ AnyOpen
    /\ IF mounted = "yes" /\ chat # NoChat
       THEN /\ messages' = HandlerMessages(messages, frame)
            /\ isTyping' = HandlerTyping(frame)
            /\ store' = ServerOnFrames(store, HandlerReplies(<<>>, frame))
            /\ lastStep' = StepSent(frame.type, frame.message_id,
                                    Count(messages, frame.message_id) > 0,
                                    HandlerReplies(<<>>, frame))
       ELSE /\ UNCHANGED <<messages, isTyping, store>>
            /\ lastStep' = Step(frame.type, frame.message_id, FALSE)
    /\ UNCHANGED <<wsVars, chat, loading, error, isSending, sendReq, sendSeq,
                   loads, missed>>
    /\ typingSeen' = IF /\ mounted = "yes" /\ chat # NoChat
                        /\ frame.type = "typing" /\ frame.sender = chat
                     THEN frame.is_typing
                     ELSE typingSeen
    /\ UNCHANGED <<regVars, dashVars, modVars>>

PushNewMessage == \E f \in NewMessageFrames(store) : OnMessage(f)

PushStatus == \E f \in StatusFrames(store) : OnMessage(f)

PushTyping == \E f \in TypingFrames : OnMessage(f)

\* ChatDashboard selects a chat; ChatWindow's effect calls loadMessages().
SelectChat(p) ==
    /\ mounted = "yes"
    /\ p \in Partners
    /\ p # chat
    /\ Len(loads) < MaxLoads
    /\ chat' = p
    /\ selOnline' = ChatSelectOnline(p)
    /\ loading' = TRUE
    /\ error' = ""
    /\ loads' = Append(loads, [partner |-> p, served |-> FALSE, snap |-> <<>>])
    /\ lastStep' = Step("select", 0, FALSE)
    /\ UNCHANGED <<wsVars, netVars, messages, isSending, isTyping, sendReq,
                   sendSeq>>
    /\ editing' = {}
    /\ typingSeen' = FALSE
    /\ UNCHANGED <<regVars, chats, onlineUsers, listLoads, known, modReqs>>

\* The server answers a getConversation call.
ServeLoad(k) ==
    /\ k \in 1..Len(loads)
    /\ ~loads[k].served
    /\ loads' = [loads EXCEPT ![k].served = TRUE,
                              ![k].snap = History(store, loads[k].partner)]
    /\ lastStep' = Step("serveLoad", 0, FALSE)
    /\ UNCHANGED <<wsVars, netVars, chat, messages, loading, error, isSending,
                   isTyping, sendReq, sendSeq>>
    /\ UNCHANGED <<regVars, dashVars, modVars, typingSeen>>

\* loadMessages(): the response arrives.
LoadReturn(k) ==
    /\ k \in 1..Len(loads)
    /\ loads[k].served
    /\ messages' = Reverse(loads[k].snap)
    /\ loading' = FALSE
    /\ loads' = RemoveAt(loads, k)
    /\ lastStep' = Step("loadOk", k, messages # <<>>)
    /\ UNCHANGED <<wsVars, netVars, chat, error, isSending, isTyping, sendReq,
                   sendSeq>>
    /\ editing' = EditingAfter(messages', loading, editing)
    /\ UNCHANGED <<regVars, dashVars, modReqs, typingSeen>>

\* loadMessages(): the call throws.
LoadFail(k) ==
    /\ k \in 1..Len(loads)
    /\ messages' = <<>>
    /\ error' = "Failed to load messages"
    /\ loading' = FALSE
    /\ loads' = RemoveAt(loads, k)
    /\ lastStep' = Step("loadFail", k, FALSE)
    /\ UNCHANGED <<wsVars, netVars, chat, isSending, isTyping, sendReq,
                   sendSeq>>
    /\ editing' = EditingAfter(messages', loading, editing)
    /\ UNCHANGED <<regVars, dashVars, modReqs, typingSeen>>

TempId(n) == 0 - n

\* The locally fabricated placeholder.
OptimisticMessage(content) ==
    [message_id |-> TempId(sendSeq + 1), sender |-> Me, recipient |-> chat,
     content |-> Trim(content), status |-> "Sending",
     timestamp |-> TimestampOf(Len(store)) + 1, edited |-> FALSE]

\* handleSendMessage returns at once for these.
SendRejected(content) == content = <<>> \/ Trim(content) = <<>> \/ isSending

\* handleSendMessage(content) up to its await.
HandleSendMessage(content) ==
    IF SendRejected(content)
    THEN UNCHANGED <<vars>>
    ELSE /\ isSending' = TRUE
         /\ error' = ""
         /\ messages' = Append(messages, OptimisticMessage(content))
         /\ sendSeq' = sendSeq + 1
         /\ sendReq' = [phase |-> "sent", tempId |-> TempId(sendSeq + 1),
                        recipient |-> chat, content |-> Trim(content),
                        isConnected |-> isConnected, socket |-> socket,
                        result |-> 0]
         /\ lastStep' = Step("send", TempId(sendSeq + 1), FALSE)
         /\ UNCHANGED <<wsVars, netVars, chat, loading, isTyping, loads>>
         /\ UNCHANGED <<regVars, dashVars, modVars, typingSeen>>

\* MessageInput.handleSend: the input is rendered once loading is over.
Send(content) ==
    /\ mounted = "yes"
    /\ chat # NoChat
    /\ ~loading
    /\ content \in Contents
    /\ Trim(content) # <<>>
    /\ ~isSending
    /\ sendSeq < MaxSends
    /\ HandleSendMessage(Trim(content))

\* MessageInput.handleSend: `!trimmedMessage || disabled`, disabled={isSending}.
InputBlocked(content) == Trim(content) = <<>> \/ isSending

\* MessageInput.handleSend on the text typed, blocked or passed to onSend.
HandleSend(content) ==
    /\ mounted = "yes"
    /\ chat # NoChat
    /\ ~loading
    /\ content \in Contents
    /\ IF InputBlocked(content)
       THEN /\ lastStep' = Step("sendBlocked", Len(content), isSending)
            /\ UNCHANGED <<wsVars, chatVars, netVars, modVars, typingSeen, regVars, dashVars>>
       ELSE /\ sendSeq < MaxSends
            /\ HandleSendMessage(Trim(content))

\* The server stores the message of the send in flight (either endpoint).
ServerPersist ==
    /\ sendReq.phase = "sent"
    /\ Len(store) < MaxMsgs
    /\ store' = Append(store, Stored(Me, sendReq.recipient,
                                      sendReq.content, AnyOpen))
    /\ sendReq' = [sendReq EXCEPT !.phase = "stored", !.result = Len(store) + 1]
    /\ lastStep' = Step("persist", 0, FALSE)
    /\ UNCHANGED <<wsVars, missed, chat, messages, loading, error,
                   isSending, isTyping, sendSeq, loads>>
    /\ UNCHANGED <<regVars, dashVars, modVars, typingSeen>>

\* The authoritative message the durable send returns.
NewMessage(req) ==
    [message_id |-> req.result, sender |-> Me, recipient |-> req.recipient,
     content |-> req.content, status |-> MESSAGE_STATUS.SENT,
     timestamp |-> TimestampOf(req.result), edited |-> FALSE]

\* A reconciliation that drops the placeholder and appends the result.
ReplaceAtEnd(prev, tempId, newMessage) ==
    Append(SelectSeq(prev, LAMBDA m : m.message_id # tempId), newMessage)

\* A failure path that leaves the list as it is.
RemoveNothing(prev, tempId) == prev

\* prev.map(msg => msg.message_id === optimistic.message_id ? newMessage : msg)
ReplaceOptimistic(prev, tempId, newMessage) ==
    [i \in 1..Len(prev) |->
        IF prev[i].message_id = tempId THEN newMessage ELSE prev[i]]

\* prev.filter(msg => msg.message_id !== optimistic.message_id)
RemoveOptimistic(prev, tempId) ==
    SelectSeq(prev, LAMBDA m : m.message_id # tempId)

\* "Send via WebSocket if connected": isConnected and the socket are the
\* ones of the render the call started in.
AfterSendFrames(out, req) ==
    IF req.isConnected /\ req.recipient # BOT_EMAIL
    THEN SendChatMessage(out, req.socket, req.recipient, req.content)
    ELSE out

\* handleSendMessage after its await: the call returned.
SendReturn ==
    /\ sendReq.phase = "stored"
    /\ messages' = ReplaceOptimistic(messages, sendReq.tempId, NewMessage(sendReq))
    /\ store' = ServerOnFrames(store, AfterSendFrames(<<>>, sendReq))
    /\ isSending' = FALSE
    /\ sendReq' = NoReq
    /\ lastStep' = StepSent("sendOk", sendReq.result,
                            Count(messages, sendReq.tempId) > 0,
                            AfterSendFrames(<<>>, sendReq))
    /\ UNCHANGED <<wsVars, missed, chat, loading, error, isTyping,
                   sendSeq, loads>>
    /\ editing' = EditingAfter(messages', loading, editing)
    /\ UNCHANGED <<regVars, dashVars, modReqs, typingSeen>>

\* handleSendMessage after its await: the call threw (the request was
\* rejected, or the response was lost).
SendFail ==
    /\ sendReq.phase \in {"sent", "stored"}
    /\ messages' = RemoveOptimistic(messages, sendReq.tempId)
    /\ error' = "Failed to send message. Please try again."
    /\ isSending' = FALSE
    /\ sendReq' = NoReq
    /\ lastStep' = Step("sendFail", sendReq.tempId, Count(messages, sendReq.tempId) > 0)
    /\ UNCHANGED <<wsVars, netVars, chat, loading, isTyping, sendSeq, loads>>
    /\ editing' = EditingAfter(messages', loading, editing)
    /\ UNCHANGED <<regVars, dashVars, modReqs, typingSeen>>

(***************************************************************************)
(* Message.jsx and ChatWindow.jsx: edit and delete                         *)
(***************************************************************************)
\* A menu that offers Edit and Delete on every message.
ShowsItemsAlways(m) == TRUE

IsOwnMessage(m) == m.sender = Me

\* message.is_bot_response is set on the bot's replies only, whose sender is
\* the bot.
IsBotMessage(m) == m.sender = BOT_EMAIL

\* The menu renders Edit and Delete under `isOwnMessage && !isBotMessage`.
ShowsOwnerItems(m) ==
    IsOwnMessage(m) /\ ~IsBotMessage(m)

\* The Message components exist once the Loading screen is gone.
MessageShown(i) ==
    /\ mounted = "yes"
    /\ chat # NoChat
    /\ ~loading
    /\ i \in 1..Len(messages)

\* editMessage(id, newContent): not found, not owner, already deleted.
EditOp(st, id, by, content) ==
    IF id \in 1..Len(st) /\ st[id].sender = by /\ ~st[id].deleted
    THEN [store |-> [st EXCEPT ![id].content = content, ![id].edited = TRUE],
          ok |-> TRUE]
    ELSE [store |-> st, ok |-> FALSE]

\* deleteMessage(id): not found, not owner.
DeleteOp(st, id, by) ==
    IF id \in 1..Len(st) /\ st[id].sender = by
    THEN [store |-> [st EXCEPT ![id].deleted = TRUE], ok |-> TRUE]
    ELSE [store |-> st, ok |-> FALSE]

\* An edit or delete call of ChatWindow, before the server answers.
ModReq(kind, id, content) ==
    [kind |-> kind, id |-> id, content |-> content, served |-> FALSE,
     ok |-> FALSE]

\* Message.handleEdit, from the menu of message i.
HandleEdit(i) ==
    /\ MessageShown(i)
    /\ messages[i].message_id \notin editing
    /\ ShowsOwnerItems(messages[i])
    /\ editing' = editing \cup {messages[i].message_id}
    /\ lastStep' = Step("edit", messages[i].message_id, FALSE)
    /\ UNCHANGED <<wsVars, chatVars, netVars, regVars, dashVars, modReqs, typingSeen>>

\* Message.handleCancelEdit.
HandleCancelEdit(i) ==
    /\ MessageShown(i)
    /\ messages[i].message_id \in editing
    /\ editing' = editing \ {messages[i].message_id}
    /\ lastStep' = Step("cancelEdit", messages[i].message_id, FALSE)
    /\ UNCHANGED <<wsVars, chatVars, netVars, regVars, dashVars, modReqs, typingSeen>>

\* Message.handleSaveEdit on the text in the editor; onEdit is
\* ChatWindow.handleEditMessage up to its await.
HandleSaveEdit(i, content) ==
    /\ MessageShown(i)
    /\ messages[i].message_id \in editing
    /\ content \in Contents
    /\ editing' = editing \ {messages[i].message_id}
    /\ IF Trim(content) # <<>> /\ content # messages[i].content
       THEN /\ Len(modReqs) < MaxMods
            /\ modReqs' = Append(modReqs, ModReq("edit", messages[i].message_id,
                                                  Trim(content)))
            /\ lastStep' = Step("saveEdit", messages[i].message_id, TRUE)
       ELSE /\ modReqs' = modReqs
            /\ lastStep' = Step("saveEdit", messages[i].message_id, FALSE)
    /\ UNCHANGED <<wsVars, chatVars, netVars, regVars, dashVars, typingSeen>>

\* Message.handleDelete, from the menu of message i; onDelete is
\* ChatWindow.handleDeleteMessage up to its await, window.confirm included.
HandleDelete(i, confirmed) ==
    /\ MessageShown(i)
    /\ messages[i].message_id \notin editing
    /\ ShowsOwnerItems(messages[i])
    /\ confirmed \in BOOLEAN
    /\ IF confirmed
       THEN /\ Len(modReqs) < MaxMods
            /\ modReqs' = Append(modReqs, ModReq("delete",
                                                  messages[i].message_id, <<>>))
       ELSE modReqs' = modReqs
    /\ lastStep' = Step("delete", messages[i].message_id, confirmed)
    /\ UNCHANGED <<wsVars, chatVars, netVars, regVars, dashVars, editing, typingSeen>>

\* The server handles an edit or delete call of Me.
ServeMod(k) ==
    /\ k \in 1..Len(modReqs)
    /\ ~modReqs[k].served
    /\ LET r == IF modReqs[k].kind = "edit"
                THEN EditOp(store, modReqs[k].id, Me, modReqs[k].content)
                ELSE DeleteOp(store, modReqs[k].id, Me)
       IN /\ store' = r.store
          /\ modReqs' = [modReqs EXCEPT ![k].served = TRUE, ![k].ok = r.ok]
    /\ lastStep' = Step("serveMod", modReqs[k].id, FALSE)
    /\ UNCHANGED <<wsVars, chatVars, missed, regVars, dashVars, editing, typingSeen>>

\* prev.map(msg => msg.message_id === messageId ? updatedMessage : msg)
ReplaceEdited(prev, id, content) ==
    [j \in 1..Len(prev) |->
        IF prev[j].message_id = id
        THEN [prev[j] EXCEPT !.content = content, !.edited = TRUE]
        ELSE prev[j]]

\* prev.filter(msg => msg.message_id !== messageId)
RemoveDeleted(prev, id) == SelectSeq(prev, LAMBDA m : m.message_id # id)

\* handleEditMessage / handleDeleteMessage after the await.
ModReturn(k) ==
    /\ mounted = "yes"
    /\ k \in 1..Len(modReqs)
    /\ modReqs[k].served
    /\ messages' = IF ~modReqs[k].ok THEN messages
                   ELSE IF modReqs[k].kind = "edit"
                        THEN ReplaceEdited(messages, modReqs[k].id,
                                           modReqs[k].content)
                        ELSE RemoveDeleted(messages, modReqs[k].id)
    /\ error' = IF modReqs[k].ok THEN error
                ELSE IF modReqs[k].kind = "edit"
                     THEN "Failed to edit message"
                     ELSE "Failed to delete message"
    /\ editing' = EditingAfter(messages', loading, editing)
    /\ modReqs' = RemoveAt(modReqs, k)
    /\ lastStep' = Step("modReturn", modReqs[k].id, modReqs[k].ok)
    /\ UNCHANGED <<wsVars, netVars, chat, loading, isSending, isTyping,
                   sendReq, sendSeq, loads, regVars, dashVars, typingSeen>>

EditNext ==
    \/ \E i \in 1..MaxMsgs + MaxSends : HandleEdit(i)
    \/ \E i \in 1..MaxMsgs + MaxSends : HandleCancelEdit(i)
    \/ \E i \in 1..MaxMsgs + MaxSends, c \in Contents : HandleSaveEdit(i, c)
    \/ \E i \in 1..MaxMsgs + MaxSends, b \in BOOLEAN : HandleDelete(i, b)
    \/ \E k \in 1..MaxMods : ServeMod(k)
    \/ \E k \in 1..MaxMods : ModReturn(k)

(***************************************************************************)
(* ChatDashboard.jsx: presence events and the chat list                    *)
(***************************************************************************)
\* chatSummaries() as the backend derives it (specification, section 6):
\* the partners Me has a conversation with, the bot always online.
SummaryListed(st) ==
    {p \in Partners : \E id \in 1..Len(st) : Between(st, id, Me, p)}

SummaryOnline(st, on) ==
    {p \in SummaryListed(st) : p = BOT_EMAIL \/ p \in on}

\* The latest presence information about Peer, after one more piece of it.
KnownAfter(about, ver, b) ==
    IF about = Peer /\ (~known.any \/ ver >= known.ver)
    THEN [any |-> TRUE, ver |-> ver, online |-> b]
    ELSE known

\* setChats(prevChats.map(...)) of the presence handler.
ChatsAfterStatus(chs, u, b) ==
    IF u \in chs.listed
    THEN [chs EXCEPT !.online = IF b THEN @ \cup {u} ELSE @ \ {u}]
    ELSE chs

\* The presence handler for a user_status_change frame {user_email, is_online},
\* followed by the render and the selected-chat effect it causes.
OnUserStatus(u, b) ==
    /\ onlineUsers' = IF b THEN onlineUsers \cup {u} ELSE onlineUsers \ {u}
    /\ chats' = RenderChatList(ChatsAfterStatus(chats, u, b))
    /\ selOnline' = SelectedAfterEffect(chats', onlineUsers',
                                        IF chat = u THEN b ELSE selOnline)

\* The next presence event of the broadcaster reaches Me's open connection.
PushPresence ==
    /\ mounted = "yes"
    /\ AnyOpen
    /\ evRecv < Len(events)
    /\ evRecv' = evRecv + 1
    /\ OnUserStatus(events[evRecv + 1].user, events[evRecv + 1].online)
    /\ known' = KnownAfter(events[evRecv + 1].user, evRecv + 1,
                           events[evRecv + 1].online)
    /\ lastStep' = Step("user_status_change", evRecv + 1, events[evRecv + 1].online)
    /\ UNCHANGED <<wsVars, chatVars, netVars, modVars, typingSeen, conns, presence, events, listLoads>>

\* A user_status_change frame that names the bot reaches the handler.
PushBotPresence(b) ==
    /\ mounted = "yes"
    /\ AnyOpen
    /\ b \in BOOLEAN
    /\ OnUserStatus(BOT_EMAIL, b)
    /\ lastStep' = Step("bot_status_change", 0, b)
    /\ UNCHANGED <<wsVars, chatVars, netVars, modVars, typingSeen, regVars, listLoads, known>>

\* handleRefresh: loadChatList() once more.
Refresh ==
    /\ mounted = "yes"
    /\ Len(listLoads) < MaxListLoads
    /\ listLoads' = Append(listLoads, [served |-> FALSE, listed |-> {},
                                        online |-> {}, ver |-> 0])
    /\ lastStep' = Step("refresh", 0, FALSE)
    /\ UNCHANGED <<wsVars, chatVars, netVars, modVars, typingSeen, regVars, chats, onlineUsers,
                   selOnline, known>>

\* The server answers a getChatList call.
ServeChatList(k) ==
    /\ k \in 1..Len(listLoads)
    /\ ~listLoads[k].served
    /\ listLoads' = [listLoads EXCEPT ![k] =
                        [served |-> TRUE, listed |-> SummaryListed(store),
                         online |-> SummaryOnline(store, presence),
                         ver |-> Len(events)]]
    /\ lastStep' = Step("serveChatList", 0, FALSE)
    /\ UNCHANGED <<wsVars, chatVars, netVars, modVars, typingSeen, regVars, chats, onlineUsers,
                   selOnline, known>>

\* loadChatList(): the response arrives.
ChatListReturn(k) ==
    /\ mounted = "yes"
    /\ k \in 1..Len(listLoads)
    /\ listLoads[k].served
    /\ onlineUsers' = listLoads[k].online
    /\ chats' = RenderChatList([listed |-> listLoads[k].listed,
                                online |-> listLoads[k].online])
    /\ selOnline' = SelectedAfterEffect(chats', onlineUsers', selOnline)
    /\ known' = IF Peer \in listLoads[k].listed
                THEN KnownAfter(Peer, listLoads[k].ver,
                                Peer \in listLoads[k].online)
                ELSE known
    /\ listLoads' = RemoveAt(listLoads, k)
    /\ lastStep' = Step("chatListOk", k, FALSE)
    /\ UNCHANGED <<wsVars, chatVars, netVars, modVars, typingSeen, regVars>>

\* loadChatList(): the call throws.
ChatListFail(k) ==
    /\ mounted = "yes"
    /\ k \in 1..Len(listLoads)
    /\ listLoads' = RemoveAt(listLoads, k)
    /\ lastStep' = Step("chatListFail", k, FALSE)
    /\ UNCHANGED <<wsVars, chatVars, netVars, modVars, typingSeen, regVars, chats, onlineUsers,
                   selOnline, known>>

\* The user clicks an entry of the chat list: a listed partner, or the bot.
PickChat(p) ==
    /\ p = BOT_EMAIL \/ p \in chats.listed
    /\ SelectChat(p)

DashNext ==
    \/ PushPresence
    \/ \E b \in BOOLEAN : PushBotPresence(b)
    \/ Refresh
    \/ \E k \in 1..MaxListLoads : ServeChatList(k)
    \/ \E k \in 1..MaxListLoads : ChatListReturn(k)
    \/ \E k \in 1..MaxListLoads : ChatListFail(k)
    \/ \E p \in Partners : PickChat(p)

ChatNext ==
    \/ \E p \in Partners : SelectChat(p)
    \/ \E k \in 1..MaxLoads : ServeLoad(k)
    \/ \E k \in 1..MaxLoads : LoadReturn(k)
    \/ \E k \in 1..MaxLoads : LoadFail(k)
    \/ \E c \in Contents : Send(c)
    \/ ServerPersist
    \/ SendReturn
    \/ SendFail
    \/ PushNewMessage
    \/ PushStatus
    \/ PushTyping

ServerNext ==
    \/ \E p \in Partners : PartnerSend(p)
    \/ \E id \in 1..MaxMsgs : PartnerAck(id)
    \/ \E id \in 1..MaxMsgs : PartnerMarkRead(id)

Next == WsNext \/ ChatNext \/ ServerNext \/ RegistryNext \/ DashNext \/ EditNext

\* The user opens a chat while no history request is in flight.
OpenChat(p) == loads = <<>> /\ SelectChat(p)

\* The session comes up: login, the provider mounts, its socket opens.
SessionNext ==
    \/ Login
    \/ Mount
    \/ \E i \in 1..MaxSockets : OnOpen(i)

\* Optimistic send and its reconciliation with the push channel.
SendNext ==
    \/ SessionNext
    \/ \E p \in Partners : OpenChat(p)
    \/ \E k \in 1..MaxLoads : ServeLoad(k)
    \/ \E k \in 1..MaxLoads : LoadReturn(k)
    \/ \E k \in 1..MaxLoads : LoadFail(k)
    \/ \E c \in Contents : Send(c)
    \/ ServerPersist
    \/ SendReturn
    \/ SendFail
    \/ PushNewMessage
    \/ \E p \in Partners : PartnerSend(p)

\* Delivery status: acknowledgements, read marks and their notifications.
StatusNext ==
    \/ SessionNext
    \/ \E p \in Partners : OpenChat(p)
    \/ \E k \in 1..MaxLoads : ServeLoad(k)
    \/ \E k \in 1..MaxLoads : LoadReturn(k)
    \/ \E c \in Contents : Send(c)
    \/ ServerPersist
    \/ SendReturn
    \/ PushNewMessage
    \/ PushStatus
    \/ \E p \in Partners : PartnerSend(p)
    \/ \E id \in 1..MaxMsgs : PartnerAck(id)
    \/ \E id \in 1..MaxMsgs : PartnerMarkRead(id)

\* The coordinator's table under acknowledgements and read marks from both
\* sides: the partners', and those Me's push handler writes to the channel.
CoordNext ==
    \/ SessionNext
    \/ \E p \in Partners : OpenChat(p)
    \/ \E k \in 1..MaxLoads : ServeLoad(k)
    \/ \E k \in 1..MaxLoads : LoadReturn(k)
    \/ \E c \in Contents : Send(c)
    \/ ServerPersist
    \/ PushNewMessage
    \/ \E p \in Partners : PartnerSend(p)
    \/ \E id \in 1..MaxMsgs : PartnerAck(id)
    \/ \E id \in 1..MaxMsgs : PartnerMarkRead(id)

\* The coordinator scenario with the status-change notifications arriving.
DeliveryNext ==
    \/ CoordNext
    \/ PushStatus

\* The message input: sends that are blocked and sends that go through.
InputNext ==
    \/ SessionNext
    \/ \E p \in Partners : OpenChat(p)
    \/ \E k \in 1..MaxLoads : ServeLoad(k)
    \/ \E k \in 1..MaxLoads : LoadReturn(k)
    \/ \E c \in Contents : HandleSend(c)
    \/ ServerPersist
    \/ SendReturn
    \/ SendFail

\* Edit and delete from the message menu, on own and partner messages.
ModifyNext ==
    \/ SessionNext
    \/ \E p \in Partners : OpenChat(p)
    \/ \E k \in 1..MaxLoads : ServeLoad(k)
    \/ \E k \in 1..MaxLoads : LoadReturn(k)
    \/ \E c \in Contents : Send(c)
    \/ ServerPersist
    \/ SendReturn
    \/ \E p \in Partners : PartnerSend(p)
    \/ EditNext

\* History loads, also overlapping ones, and pushes under a changing chat.
HistoryNext ==
    \/ SessionNext
    \/ \E p \in Partners : SelectChat(p)
    \/ \E k \in 1..MaxLoads : ServeLoad(k)
    \/ \E k \in 1..MaxLoads : LoadReturn(k)
    \/ \E k \in 1..MaxLoads : LoadFail(k)
    \/ PushNewMessage
    \/ \E p \in Partners : PartnerSend(p)

\* Typing events under a changing chat.
TypingNext ==
    \/ SessionNext
    \/ \E p \in Partners : OpenChat(p)
    \/ \E k \in 1..MaxLoads : ServeLoad(k)
    \/ \E k \in 1..MaxLoads : LoadReturn(k)
    \/ PushTyping
    \/ PartnerSend(Peer)

\* Presence as the dashboard shows it: registry edges, their events, the
\* chat list and the selected chat.
PresenceNext ==
    \/ SessionNext
    \/ \E c \in 1..MaxConns : Register(Peer, c)
    \/ \E c \in 1..MaxConns : Unregister(Peer, c)
    \/ DashNext
    \/ PartnerSend(Peer)

\* The push connection drops and comes back under an open conversation.
ReconnectNext ==
    \/ SessionNext
    \/ \E i \in 1..MaxSockets : OnClose(i)
    \/ TimerFire
    \/ \E p \in Partners : OpenChat(p)
    \/ \E k \in 1..MaxLoads : ServeLoad(k)
    \/ \E k \in 1..MaxLoads : LoadReturn(k)
    \/ PushNewMessage
    \/ \E p \in Partners : PartnerSend(p)

Init ==
    /\ storage \in {{}, {TOKEN}}
    /\ user = 0
    /\ isAuthenticated = FALSE
    /\ mounted = "no"
    /\ socks = <<>>
    /\ socket = 0
    /\ cleanupSocket = 0
    /\ isConnected = FALSE
    /\ reconnectAttempts = 0
    /\ timers = 0
    /\ refPending = FALSE
    /\ chat = NoChat
    /\ messages = <<>>
    /\ loading = TRUE
    /\ error = ""
    /\ isSending = FALSE
    /\ isTyping = FALSE
    /\ sendReq = NoReq
    /\ sendSeq = 0
    /\ loads = <<>>
    /\ store = <<>>
    /\ missed = {}
    /\ conns = [u \in RegUsers |-> {}]
    /\ presence = {}
    /\ events = <<>>
    /\ evRecv = 0
    /\ chats = [listed |-> {}, online |-> {}]
    /\ onlineUsers = {}
    /\ selOnline = FALSE
    /\ listLoads = <<>>
    /\ known = [any |-> FALSE, ver |-> 0, online |-> FALSE]
    /\ editing = {}
    /\ modReqs = <<>>
    /\ typingSeen = FALSE
    /\ lastStep = Step("init", 0, FALSE)

Spec == Init /\ [][Next]_vars

SpecWs == Init /\ [][WsNext]_vars

SpecSend == Init /\ [][SendNext]_vars

SpecStatus == Init /\ [][StatusNext]_vars

SpecCoord == Init /\ [][CoordNext]_vars

SpecDelivery == Init /\ [][DeliveryNext]_vars

SpecReconnect == Init /\ [][ReconnectNext]_vars

SpecRegistry == Init /\ [][RegistryNext]_vars

SpecModify == Init /\ [][ModifyNext]_vars

SpecHistory == Init /\ [][HistoryNext]_vars

SpecTyping == Init /\ [][TypingNext]_vars

SpecInput == Init /\ [][InputNext]_vars

SpecPresence == Init /\ [][PresenceNext]_vars

(***************************************************************************)
(* Properties.                                                             *)
(***************************************************************************)
\* The entries of a list other than those with identifier `id`, in order.
Others(list, id) == SelectSeq(list, LAMBDA m : m.message_id # id)

Ids(list) == {list[i].message_id : i \in 1..Len(list)}

\* C1: when the durable send returns while its placeholder is displayed, the
\* list holds exactly one entry with the returned identifier, even if the
\* push echo of the message arrived while the send was in flight.
C1_EchoMergedWithPlaceholder ==
    [][(lastStep'.op = "sendOk" /\ lastStep'.flag)
         => Count(messages', lastStep'.id) = 1]_vars

\* C2: when the send returns identifier I before any push for I, the list
\* holds exactly one entry with I, and every later push of I leaves the list
\* as it is.
C2_PushOfKnownIdIsDropped ==
    [][/\ (lastStep'.op = "sendOk" /\ lastStep'.flag
             /\ Count(messages, lastStep'.id) = 0)
          => Count(messages', lastStep'.id) = 1
       /\ (lastStep'.op = "new_message" /\ Count(messages, lastStep'.id) = 1)
          => messages' = messages]_vars

\* A push echo of an own message arrived after its send had returned and
\* found the message displayed once.
C2_Witness ==
    /\ lastStep.op = "new_message"
    /\ lastStep.flag
    /\ lastStep.id \in 1..Len(store)
    /\ store[lastStep.id].sender = Me
    /\ sendReq = NoReq
    /\ error = ""
    /\ Count(messages, lastStep.id) = 1
    /\ \A i \in 1..Len(messages) : messages[i].message_id > 0

\* C3: when the durable send fails, the placeholder is removed, the failure
\* is shown, every other entry stays as it was, and no new send is started.
C3_FailureRemovesPlaceholder ==
    [][lastStep'.op = "sendFail"
         => /\ Count(messages', lastStep'.id) = 0
            /\ messages' = Others(messages, lastStep'.id)
            /\ error' # ""
            /\ ~isSending'
            /\ sendReq' = NoReq
            /\ sendSeq' = sendSeq
            /\ store' = store]_vars

\* A send failed while its placeholder was displayed next to another entry.
C3_Witness ==
    /\ lastStep.op = "sendFail"
    /\ lastStep.flag
    /\ Len(messages) >= 1
    /\ error # ""

\* C4: a send appends a placeholder with a temporary identifier and status
\* 'Sending'; when the send returns, the placeholder is replaced where it
\* stands: the list keeps its length, every other entry is unchanged, and no
\* temporary identifier remains.
C4_PlaceholderReplacedInPlace ==
    [][/\ lastStep'.op = "send"
          => /\ Len(messages') = Len(messages) + 1
             /\ SubSeq(messages', 1, Len(messages)) = messages
             /\ messages'[Len(messages')].message_id = lastStep'.id
             /\ lastStep'.id \notin Ids(messages) \cup (1..MaxMsgs)
             /\ messages'[Len(messages')].status = "Sending"
       /\ (lastStep'.op = "sendOk" /\ lastStep'.flag)
          => /\ Len(messages') = Len(messages)
             /\ \A i \in 1..Len(messages) :
                   IF messages[i].message_id = sendReq.tempId
                   THEN /\ messages'[i].message_id = lastStep'.id
                        /\ messages'[i].status = MESSAGE_STATUS.SENT
                        /\ messages'[i].content = sendReq.content
                   ELSE messages'[i] = messages[i]
             /\ \A i \in 1..Len(messages') : messages'[i].message_id > 0]_vars

\* A send returned and its placeholder, which was not the last entry, was
\* replaced.
C4_Witness ==
    /\ lastStep.op = "sendOk"
    /\ lastStep.flag
    /\ Len(messages) >= 2
    /\ messages[1].message_id = lastStep.id
    /\ messages[2].message_id # lastStep.id

\* C5: the reconnect counter never exceeds maxReconnectAttempts.
C5_AttemptsBounded == reconnectAttempts <= maxReconnectAttempts

\* C6: once the connection is back and no request is in flight, every
\* message that was stored in the open conversation while the connection was
\* lost is displayed.
C6_MissedMessagesShown ==
    (/\ mounted = "yes"
     /\ chat # NoChat
     /\ isConnected
     /\ SockOpen(socket)
     /\ ~loading
     /\ loads = <<>>)
    => \A id \in missed :
          Between(store, id, Me, chat) => Count(messages, id) > 0

\* C7: while the provider is mounted, isConnected is true exactly when the
\* provider's current WebSocket is open.
C7_IndicatorMatchesSocket ==
    mounted = "yes" => (isConnected <=> SockOpen(socket))

\* C8: a status-change push event for a displayed message of the open
\* conversation leaves it displayed with a status of Delivered or later.
C8_StatusEventUpdatesDisplay ==
    [][(lastStep'.op = "message_status" /\ lastStep'.flag)
         => \A i \in 1..Len(messages') :
               messages'[i].message_id = lastStep'.id
                  => Rank(messages'[i].status) >= Rank(MESSAGE_STATUS.DELIVERED)]_vars

\* C9: the client answers every new-message push addressed to it with a
\* mark_delivered frame for that message.
C9_PushIsAcknowledged ==
    [][(/\ lastStep'.op = "new_message"
        /\ lastStep'.id \in 1..Len(store)
        /\ store[lastStep'.id].recipient = Me
        /\ mounted = "yes")
         => \E k \in 1..Len(lastStep'.sent) :
               /\ lastStep'.sent[k].type = "mark_delivered"
               /\ lastStep'.sent[k].message_id = lastStep'.id]_vars

\* C10: under any interleaving of acknowledgements and read marks, the
\* status of a stored message never moves back in Sent < Delivered < Read,
\* and a message that is Read stays Read.
C10_StatusNeverRegresses ==
    [][/\ Len(store') >= Len(store)
       /\ \A id \in 1..Len(store) :
             /\ Rank(store'[id].status) >= Rank(store[id].status)
             /\ store[id].status = MESSAGE_STATUS.READ
                   => store'[id].status = MESSAGE_STATUS.READ]_vars

\* An acknowledgement arrived for a message that was already Read.
C10_Witness ==
    /\ lastStep.op = "ack"
    /\ lastStep.flag
    /\ lastStep.id \in 1..Len(store)
    /\ store[lastStep.id].status = MESSAGE_STATUS.READ

\* C11: every stored message with status Read has Delivered recorded, also
\* when the read mark found it still Sent.
C11_ReadImpliesDelivered ==
    \A id \in 1..Len(store) :
        store[id].status = MESSAGE_STATUS.READ => store[id].delivered

\* The push handler answered a partner's message with mark_read, no
\* acknowledgement having been sent for it, and the message is Read.
C11_Witness ==
    /\ lastStep.op = "new_message"
    /\ lastStep.id \in 1..Len(store)
    /\ store[lastStep.id].recipient = Me
    /\ Len(lastStep.sent) = 1
    /\ lastStep.sent[1].type = "mark_read"
    /\ lastStep.sent[1].message_id = lastStep.id
    /\ store[lastStep.id].status = MESSAGE_STATUS.READ
    /\ store[lastStep.id].delivered

\* The table after recipient r marked the conversation with s read up to x.
CascadeDone(s, r, x) ==
    /\ Len(store') = Len(store)
    /\ \A i \in 1..Len(store) :
          IF /\ store[i].sender = s
             /\ store[i].recipient = r
             /\ TimestampOf(i) <= TimestampOf(x)
          THEN store'[i].status = MESSAGE_STATUS.READ
          ELSE store'[i].status = store[i].status

\* C12: after a recipient marks the conversation with a sender read up to
\* message X, every message from that sender to that recipient no later than
\* X is Read, and every other message keeps its status.
C12_MarkReadCascades ==
    [][/\ (lastStep'.op = "markRead" /\ lastStep'.id \in 1..Len(store))
          => CascadeDone(Me, store[lastStep'.id].recipient, lastStep'.id)
       /\ (/\ lastStep'.op = "new_message"
           /\ lastStep'.sent # <<>>
           /\ lastStep'.sent[1].type = "mark_read"
           /\ lastStep'.sent[1].message_id \in 1..Len(store))
          => CascadeDone(lastStep'.sent[1].sender, Me,
                         lastStep'.sent[1].message_id)]_vars

\* Me's read mark for the second message of a partner also made the first
\* one Read, which no push had delivered.
C12_Witness ==
    /\ lastStep.op = "new_message"
    /\ lastStep.sent # <<>>
    /\ lastStep.sent[1].type = "mark_read"
    /\ lastStep.id = 2
    /\ Len(store) >= 2
    /\ store[1].sender = store[2].sender
    /\ store[1].recipient = Me
    /\ ~store[1].pushed
    /\ store[1].status = MESSAGE_STATUS.READ
    /\ store[2].status = MESSAGE_STATUS.READ

\* The frames of a step carry an acknowledgement or a read mark.
MarksIn(frames) ==
    \E k \in 1..Len(frames) : frames[k].type \in {"mark_delivered", "mark_read"}

C14_OnlineIffConnected ==
    \A u \in RegUsers : IsOnline(u) <=> ConnectionsFor(u) # {}

\* One of two connections of a user was unregistered: the user is still
\* online, after an earlier user went offline.
C14_Witness ==
    /\ lastStep.op = "unregister"
    /\ lastStep.flag
    /\ \E u \in RegUsers :
          /\ Cardinality(ConnectionsFor(u)) = 1
          /\ IsOnline(u)
    /\ \E k \in 1..Len(events) : ~events[k].online

\* The presence events emitted for user u, in order.
UserEvents(u) == SelectSeq(events, LAMBDA e : e.user = u)

Alternates(seq) == \A i \in 1..Len(seq) : seq[i].online <=> (i % 2 = 1)

\* C15: a step that takes a user's connection count from 0 up emits exactly
\* one online event for that user, a step that takes it down to 0 exactly one
\* offline event, any other step none; the events of a user alternate
\* online, offline, online, ...
C15_ExactPresenceEdges ==
    [][\A u \in RegUsers :
          /\ UserEvents(u)' =
                IF conns[u] = {} /\ conns'[u] # {}
                THEN Append(UserEvents(u), PresenceEvent(u, TRUE))
                ELSE IF conns[u] # {} /\ conns'[u] = {}
                THEN Append(UserEvents(u), PresenceEvent(u, FALSE))
                ELSE UserEvents(u)
          /\ Alternates(UserEvents(u))']_vars

\* A second device of an online user registered: one online event so far.
C15_Witness ==
    /\ lastStep.op = "register"
    /\ ~lastStep.flag
    /\ \E u \in RegUsers :
          /\ Cardinality(conns[u]) = 2
          /\ UserEvents(u) = <<PresenceEvent(u, TRUE)>>

\* C16: unregister of a connection that is not registered returns ok, leaves
\* the registry as it is and emits no event; two calls in a row end in the
\* state one call ends in.
C16_UnregisterIdempotent ==
    \A u \in RegUsers, c \in 1..MaxConns :
        LET once == UnregisterOp(conns, presence, u, c)
            twice == UnregisterOp(once.conns, once.presence, u, c)
        IN /\ once.result = "ok"
           /\ twice.result = "ok"
           /\ twice.conns = once.conns
           /\ twice.presence = once.presence
           /\ twice.emitted = <<>>

\* unregister was called for a connection already removed, after the user
\* had gone offline.
C16_Witness ==
    /\ lastStep.op = "unregister"
    /\ ~lastStep.flag
    /\ events # <<>>
    /\ ~events[Len(events)].online
    /\ conns[events[Len(events)].user] = {}


\* C17: in every reachable state of the mounted dashboard the bot is shown
\* online, in the chat list when it is listed and as the selected chat,
\* whatever the chat list held and whatever presence frames arrived.
C17_BotShownOnline ==
    mounted = "yes" =>
        /\ BOT_EMAIL \in chats.listed => BOT_EMAIL \in chats.online
        /\ chat = BOT_EMAIL => selOnline

\* C18: once no chat-list fetch is in flight, the online flag shown for Peer,
\* in the list and as the selected chat, is the most recent presence
\* information the client received about Peer.
C18_NoStalePresence ==
    (mounted = "yes" /\ listLoads = <<>> /\ known.any /\ Peer \in chats.listed) =>
        /\ (Peer \in chats.online) = known.online
        /\ chat = Peer => selOnline = known.online

\* C19: a send whose content is empty or whitespace only is rejected at once:
\* a blocked step adds no placeholder, starts no durable send, stores nothing
\* and writes no frame, and no step that starts a send carries blank content.
C19_BlankSendRejected ==
    [][/\ lastStep'.op = "sendBlocked" =>
            /\ messages' = messages
            /\ sendReq' = sendReq
            /\ sendSeq' = sendSeq
            /\ store' = store
            /\ lastStep'.sent = <<>>
       /\ lastStep'.op = "send" => ~IsBlank(sendReq'.content)
       /\ sendSeq' # sendSeq => lastStep'.op = "send"]_vars

\* A whitespace-only text was submitted while no send was in flight.
C19_Witness ==
    lastStep.op = "sendBlocked" /\ lastStep.id > 0 /\ ~lastStep.flag

\* C20: every edit or delete request the client issues names a message that
\* the list shows with the current user as its sender, never one sent by the
\* partner or by the bot.
C20_OnlySenderModifies ==
    [][Len(modReqs') > Len(modReqs) =>
        LET r == modReqs'[Len(modReqs')]
        IN /\ \E i \in 1..Len(messages) :
                messages[i].message_id = r.id /\ messages[i].sender = Me
           /\ \A i \in 1..Len(messages) :
                messages[i].message_id = r.id =>
                    messages[i].sender \notin Partners]_vars

\* A request was issued while the list also showed a message of the partner.
C20_Witness ==
    /\ lastStep.op \in {"saveEdit", "delete"}
    /\ lastStep.flag
    /\ \E i \in 1..Len(messages) : messages[i].sender \in Partners

\* C21: when a history load completes, the displayed list is the returned
\* (newest-first) sequence reversed, oldest first, whatever was displayed
\* before.
C21_HistoryShownReversed ==
    [][lastStep'.op = "loadOk" =>
        LET snap == loads[lastStep'.id].snap
        IN /\ Len(messages') = Len(snap)
           /\ \A i \in 1..Len(snap) : messages'[i] = snap[Len(snap) + 1 - i]
           /\ \A i, j \in 1..Len(snap) :
                i < j => /\ snap[i].timestamp >= snap[j].timestamp
                         /\ messages'[i].timestamp <= messages'[j].timestamp]_vars

\* A load that returned two messages completed over a non-empty list.
C21_Witness ==
    lastStep.op = "loadOk" /\ lastStep.flag /\ Len(messages) >= 2

\* C22: once login has stored the access token and the provider has mounted
\* (its connect effect has run), connect has read that token and created a
\* push connection.
C22_LoginLeadsToConnection ==
    (mounted = "yes" /\ ACCESS_TOKEN \in storage) => Len(socks) > 0

\* C23: a message sent to a non-bot partner reaches the server once: the step
\* in which the durable send returns writes no new_message frame with the
\* same content to the push channel.
C23_SubmittedOnce ==
    [][(lastStep'.op = "sendOk" /\ sendReq.recipient # BOT_EMAIL) =>
        \A i \in 1..Len(lastStep'.sent) :
            ~(/\ lastStep'.sent[i].type = "new_message"
              /\ lastStep'.sent[i].content = sendReq.content)]_vars

\* C24: while ChatWindow is not loading, every displayed message is between
\* the current user and the selected partner.
C24_OnlySelectedConversationShown ==
    (mounted = "yes" /\ chat # NoChat /\ ~loading) =>
        \A i \in 1..Len(messages) : InConversation(messages[i])

\* C25: a message of the selected conversation that the push handler put on
\* display while the conversation's only history fetch was in flight is
\* still displayed when that fetch completes.
C25_PushDuringFetchKept ==
    [][(lastStep'.op = "loadOk" /\ Len(loads) = 1 /\ loads[1].partner = chat) =>
        \A i \in 1..Len(messages) :
            InConversation(messages[i]) =>
                \E j \in 1..Len(messages') :
                    messages'[j].message_id = messages[i].message_id]_vars

\* C26: at any time at most one WebSocket of the provider is connecting or
\* open.
C26_AtMostOneLiveSocket ==
    Cardinality({i \in 1..Len(socks) : socks[i] \in {"connecting", "open"}}) <= 1

\* C27: once the provider has unmounted, every socket it created is closing
\* or closed, no reconnect timer is pending, and no socket is created any
\* more.
C27_UnmountEndsConnections ==
    [][mounted' = "gone" =>
        /\ \A i \in 1..Len(socks') : socks'[i] \in {"closing", "closed"}
        /\ timers' = 0
        /\ mounted = "gone" => Len(socks') = Len(socks)]_vars

\* C28: the header shows the selected partner typing only if the last typing
\* event received from that partner since it was selected said is_typing.
C28_TypingIsOfSelectedPartner ==
    (mounted = "yes" /\ chat # NoChat /\ ~loading /\ isTyping) => typingSeen

\* C29: no edit or delete request names a temporary placeholder id.
C29_NoRequestForPlaceholder ==
    [][Len(modReqs') > Len(modReqs) =>
        \A n \in 1..MaxSends + 1 : modReqs'[Len(modReqs')].id # TempId(n)]_vars

\* C30: the displayed list is in non-decreasing creation-timestamp order in
\* every reachable state in which it is shown.
C30_DisplayedInTimestampOrder ==
    (mounted = "yes" /\ chat # NoChat /\ ~loading) =>
        \A i, j \in 1..Len(messages) :
            i < j => messages[i].timestamp <= messages[j].timestamp

====
